---------------------------- MODULE Spec2Model ----------------------------
(***************************************************************************)
(* Sentiment Analysis Dashboard (SentimentDashboard component and its two  *)
(* children).  The module models                                           *)
(*   - the JavaScript `number` arithmetic of the scorer (IEEE-754 binary64 *)
(*     with round-to-nearest-even), on exact multi-limb naturals;          *)
(*   - the string operations of the scorer and of extractKeywords          *)
(*     (toLowerCase, global regular-expression match, includes, split);    *)
(*   - analyzeSentiment, phase by phase;                                   *)
(*   - the dashboard's React state and its event handlers.                 *)
(***************************************************************************)
EXTENDS Integers, Sequences, FiniteSets, TLC

(***************************************************************************)
(* JavaScript numbers.  A non-negative finite double v is held as the      *)
(* natural v * 2^FracBits, little-endian in NumLimbs limbs of LimbBits     *)
(* bits.  Every double between 2^-(FracBits-SigBits-1) and 2^7 is held     *)
(* exactly; the scorer's values stay within that range for the inputs      *)
(* enumerated below.                                         *)
(***************************************************************************)
SigBits == 53
LimbBits == 28
NumLimbs == 3
FracBits == 64

LimbBase == 2^LimbBits
Idx == 1..NumLimbs
TotalBits == NumLimbs * LimbBits

RECURSIVE LimbsFrom(_, _)
\* the limbs Limb(i), Limb(i+1), ..., Limb(NumLimbs) as a tuple
LimbsFrom(Limb(_), i) ==
  IF i > NumLimbs THEN <<>> ELSE <<Limb(i)>> \o LimbsFrom(Limb, i + 1)

BigZero == LimbsFrom(LAMBDA i : 0, 1)

\* the natural 2^k
Pow2(k) == LimbsFrom(LAMBDA i : IF i - 1 = k \div LimbBits THEN 2^(k % LimbBits) ELSE 0, 1)

\* bit k of the natural N (bit 0 is the least significant)
Bit(N, k) == (N[(k \div LimbBits) + 1] \div 2^(k % LimbBits)) % 2

RECURSIVE LimbLen(_)
LimbLen(x) == IF x = 0 THEN 0 ELSE 1 + LimbLen(x \div 2)

\* number of significant bits of N
BitLen(N) ==
  IF N = BigZero THEN 0
  ELSE LET top == CHOOSE i \in Idx : N[i] # 0 /\ \A j \in (i+1)..NumLimbs : N[j] = 0
       IN  (top - 1) * LimbBits + LimbLen(N[top])

RECURSIVE AddFrom(_, _, _, _)
AddFrom(A, B, i, carry) ==
  IF i > NumLimbs THEN <<>>
  ELSE LET s == A[i] + B[i] + carry
       IN  <<s % LimbBase>> \o AddFrom(A, B, i + 1, s \div LimbBase)

BigAdd(A, B) == AddFrom(A, B, 1, 0)

RECURSIVE SubFrom(_, _, _, _)
SubFrom(A, B, i, borrow) ==
  IF i > NumLimbs THEN <<>>
  ELSE LET d == A[i] - B[i] - borrow
       IN  IF d < 0 THEN <<d + LimbBase>> \o SubFrom(A, B, i + 1, 1)
                    ELSE <<d>> \o SubFrom(A, B, i + 1, 0)

\* A - B for A >= B
BigSub(A, B) == SubFrom(A, B, 1, 0)

BigLess(A, B) ==
  \E i \in Idx : A[i] < B[i] /\ \A j \in (i+1)..NumLimbs : A[j] = B[j]

BigLeq(A, B) == A = B \/ BigLess(A, B)

RECURSIVE BigTimes(_, _)
\* n * A for a small natural n, by doubling
BigTimes(n, A) ==
  IF n = 0 THEN BigZero
  ELSE LET half    == BigTimes(n \div 2, A)
           doubled == BigAdd(half, half)
       IN  IF n % 2 = 1 THEN BigAdd(doubled, A) ELSE doubled

\* N with its d low bits cleared
ClearLow(N, d) ==
  LimbsFrom(LAMBDA i : IF i * LimbBits <= d THEN 0
                       ELSE IF (i - 1) * LimbBits >= d THEN N[i]
                       ELSE N[i] - (N[i] % 2^(d - (i - 1) * LimbBits)), 1)

\* Round the real number N + (a positive fraction below 1 iff sticky) to
\* SigBits significant bits, ties to even.
RoundSig(N, sticky) ==
  LET len == BitLen(N)
      d   == len - SigBits
  IN  IF d <= 0 THEN N
      ELSE LET guard == Bit(N, d - 1) = 1
               rest  == sticky \/ \E k \in 0..(d - 2) : Bit(N, k) = 1
               odd   == Bit(N, d) = 1
               up    == guard /\ (rest \/ odd)
               trunc == ClearLow(N, d)
           IN  IF up THEN BigAdd(trunc, Pow2(d)) ELSE trunc

\* the double of the integer n
FromInt(n) == BigTimes(n, Pow2(FracBits))

\* what JavaScript produces for 0/0 and x/0 (NaN, Infinity): no finite double;
\* arithmetic on it gives it again and every comparison with it is false
NotFinite == LimbsFrom(LAMBDA i : -1, 1)

\* a + b in double arithmetic
FAdd(A, B) ==
  IF A = NotFinite \/ B = NotFinite THEN NotFinite
  ELSE RoundSig(BigAdd(A, B), FALSE)

\* One step of the long division of X * 2^FracBits by Y: bring down numerator
\* bit k into the running remainder r; the quotient bit found and the new remainder.
DivStep(X, Y, k, r) ==
  LET b  == IF k >= FracBits THEN Bit(X, k - FracBits) ELSE 0
      r2 == IF b = 1 THEN BigAdd(BigAdd(r, r), Pow2(0)) ELSE BigAdd(r, r)
  IN  IF BigLess(r2, Y) THEN [q |-> BigZero, r |-> r2]
                        ELSE [q |-> Pow2(k), r |-> BigSub(r2, Y)]

RECURSIVE DivLoop(_, _, _, _, _)
\* The division steps for numerator bits hi down to lo, starting with remainder
\* r: the quotient bits found (q) and the remainder left (r).  The range is
\* halved so that the evaluation nests only logarithmically deep.
DivLoop(X, Y, hi, lo, r) ==
  IF hi < lo THEN [q |-> BigZero, r |-> r]
  ELSE IF hi = lo THEN DivStep(X, Y, hi, r)
  ELSE LET mid   == (hi + lo + 1) \div 2
           upper == DivLoop(X, Y, hi, mid, r)
           lower == DivLoop(X, Y, mid - 1, lo, upper.r)
       IN  [q |-> BigAdd(upper.q, lower.q), r |-> lower.r]

\* x / y in double arithmetic
FDiv(X, Y) ==
  IF X = NotFinite \/ Y = NotFinite \/ Y = BigZero THEN NotFinite
  ELSE LET d == IF BigLess(X, Y)
                   \* the bits of X alone give quotient 0 and remainder X
                   THEN DivLoop(X, Y, FracBits - 1, 0, X)
                   ELSE DivLoop(X, Y, BitLen(X) + FracBits - 1, 0, BigZero)
       IN  RoundSig(d.q, d.r # BigZero)

\* n * b in double arithmetic, for an integer-valued double n
FMulInt(n, B) == IF B = NotFinite THEN NotFinite ELSE RoundSig(BigTimes(n, B), FALSE)

\* the double comparison a > b
FGreater(A, B) == A # NotFinite /\ B # NotFinite /\ BigLess(B, A)

FZero == BigZero
FOne  == FromInt(1)
\* the literal 0.5
FHalf == FDiv(FromInt(1), FromInt(2))
\* the literal 0.1: the double nearest to 1/10
FTenth == FDiv(FromInt(1), FromInt(10))

(***************************************************************************)
(* JavaScript strings, over the ASCII characters.                          *)
(***************************************************************************)
UpperLetters == "ABCDEFGHIJKLMNOPQRSTUVWXYZ"
LowerLetters == "abcdefghijklmnopqrstuvwxyz"
DigitChars   == "0123456789"

CharAt(s, i) == SubSeq(s, i, i)

\* whether the one-character string c occurs in the string set
CharIn(c, set) == \E i \in 1..Len(set) : CharAt(set, i) = c

LowerChar(c) ==
  IF CharIn(c, UpperLetters)
    THEN CharAt(LowerLetters, CHOOSE i \in 1..Len(UpperLetters) : CharAt(UpperLetters, i) = c)
    ELSE c

RECURSIVE toLowerCase(_)
\* String.prototype.toLowerCase, character by character (the string is halved
\* so that the evaluation nests only logarithmically deep)
toLowerCase(s) ==
  IF Len(s) = 0 THEN ""
  ELSE IF Len(s) = 1 THEN LowerChar(s)
  ELSE LET h == Len(s) \div 2
       IN  toLowerCase(SubSeq(s, 1, h)) \o toLowerCase(SubSeq(s, h + 1, Len(s)))

\* whether the literal pattern w matches the string s at position i
MatchAt(s, w, i) ==
  /\ i + Len(w) - 1 <= Len(s)
  /\ SubSeq(s, i, i + Len(w) - 1) = w

MatchPositions(s, w) == {i \in 1..Len(s) : MatchAt(s, w, i)}

RECURSIVE ScanFrom(_, _, _)
\* the matches a global regular expression finds from position `from` on: the
\* leftmost match, then the scan resumes after the end of that match
ScanFrom(positions, from, len) ==
  LET ahead == {i \in positions : i >= from}
  IN  IF ahead = {} THEN 0
      ELSE LET m == CHOOSE i \in ahead : \A j \in ahead : i <= j
           IN  1 + ScanFrom(positions, m + len, len)

\* (s.match(new RegExp(w, 'g')) || []).length, for a pattern w of literal characters
matchCount(s, w) == ScanFrom(MatchPositions(s, w), 1, Len(w))

\* s.includes(w)
includes(s, w) == MatchPositions(s, w) # {}

WhiteSpace == " \t\n\r"

\* s.trim()
trim(s) ==
  LET solid == {i \in 1..Len(s) : ~CharIn(CharAt(s, i), WhiteSpace)}
  IN  IF solid = {} THEN ""
      ELSE SubSeq(s, CHOOSE i \in solid : \A j \in solid : i <= j,
                     CHOOSE i \in solid : \A j \in solid : j <= i)

\* the regular-expression class \w
IsWordChar(c) ==
  CharIn(c, UpperLetters) \/ CharIn(c, LowerLetters) \/ CharIn(c, DigitChars) \/ c = "_"

RECURSIVE RunsFrom(_, _, _)
\* the maximal runs of word characters of s that start at the positions of
\* `starts` from position `from` on, in order
RunsFrom(s, starts, from) ==
  LET ahead == {i \in starts : i >= from}
  IN  IF ahead = {} THEN <<>>
      ELSE LET a == CHOOSE i \in ahead : \A j \in ahead : i <= j
               b == CHOOSE e \in a..Len(s) :
                      /\ \A k \in a..e : IsWordChar(CharAt(s, k))
                      /\ (e = Len(s) \/ ~IsWordChar(CharAt(s, e + 1)))
           IN  <<SubSeq(s, a, b)>> \o RunsFrom(s, starts, b + 1)

\* s.split(/\W+/): the runs of word characters, with an empty string first
\* (last) when s starts (ends) with a separator, and [""] for the empty string
splitNonWord(s) ==
  IF Len(s) = 0 THEN <<"">>
  ELSE LET starts == {i \in 1..Len(s) :
                        /\ IsWordChar(CharAt(s, i))
                        /\ (i = 1 \/ ~IsWordChar(CharAt(s, i - 1)))}
       IN  (IF IsWordChar(CharAt(s, 1)) THEN <<>> ELSE <<"">>)
           \o RunsFrom(s, starts, 1)
           \o (IF IsWordChar(CharAt(s, Len(s))) THEN <<>> ELSE <<"">>)

\* seq.slice(0, n)
Take(seq, n) == SubSeq(seq, 1, IF Len(seq) < n THEN Len(seq) ELSE n)

(***************************************************************************)
(* analyzeSentiment: the scoring pass, block by block.                     *)
(***************************************************************************)
positiveWords == <<"good", "great", "excellent", "amazing", "wonderful", "fantastic",
                   "love", "like", "happy", "perfect", "best", "awesome", "brilliant",
                   "outstanding", "superb">>
negativeWords == <<"bad", "terrible", "awful", "horrible", "hate", "worst",
                   "disappointing", "poor", "sad", "angry", "disgusting", "pathetic",
                   "useless", "annoying", "frustrated">>
neutralWords == <<"okay", "fine", "average", "normal", "standard", "typical",
                  "regular", "moderate">>
strongNegativePhrases == <<"no one should", "never again", "waste of money",
                           "completely disappointed">>
commonWords == <<"that", "this", "with", "have", "will", "been", "they", "there",
                 "their", "would", "could", "should">>

\* the weight of a strong negative phrase
StrongWeight == 3

SeqToSet(seq) == {seq[i] : i \in 1..Len(seq)}

RECURSIVE countWords(_, _, _)
\* words.forEach(word => { score += (text.match(new RegExp(word, 'g')) || []).length })
countWords(txt, words, score) ==
  IF words = <<>> THEN score
  ELSE countWords(txt, Tail(words), FAdd(score, FromInt(matchCount(txt, Head(words)))))

\* the three scores after the word counting
WordCounts(txt) ==
  [positiveScore |-> countWords(txt, positiveWords, FZero),
   negativeScore |-> countWords(txt, negativeWords, FZero),
   neutralScore  |-> countWords(txt, neutralWords, FZero)]

RECURSIVE addPhrases_perOccurrence(_, _, _)
\* variant: the weight is added once per occurrence of the phrase
addPhrases_perOccurrence(txt, phrases, score) ==
  IF phrases = <<>> THEN score
  ELSE addPhrases_perOccurrence(txt, Tail(phrases),
         FAdd(score, FMulInt(matchCount(txt, Head(phrases)), FromInt(StrongWeight))))

RECURSIVE addPhrases(_, _, _)
\* phrases.forEach(phrase => { if (text.includes(phrase)) negativeScore += 3 })
addPhrases(txt, phrases, score) ==
  IF phrases = <<>> THEN score
  ELSE addPhrases(txt, Tail(phrases),
                  IF includes(txt, Head(phrases)) THEN FAdd(score, FromInt(StrongWeight))
                                                   ELSE score)

StrongPhraseStep(txt, s) ==
  [s EXCEPT !.negativeScore = addPhrases(txt, strongNegativePhrases, @)]

\* (text.match(/!/g) || []).length
countExclamations(txt) == matchCount(txt, "!")

\* variant: a tie counts as positive (>= for >)
ExclamationStep_tieIsPositive(txt, s) ==
  LET exclamations == countExclamations(txt)
  IN  IF exclamations > 0
        THEN IF FGreater(s.negativeScore, s.positiveScore)
               THEN [s EXCEPT !.negativeScore = FAdd(@, FMulInt(exclamations, FHalf))]
               ELSE [s EXCEPT !.positiveScore = FAdd(@, FMulInt(exclamations, FHalf))]
        ELSE s

\* variant: every exclamation mark counts 1 (the factor 0.5 is missing)
ExclamationStep_fullWeight(txt, s) ==
  LET exclamations == countExclamations(txt)
  IN  IF exclamations > 0
        THEN IF FGreater(s.negativeScore, s.positiveScore)
               THEN [s EXCEPT !.negativeScore = FAdd(@, FromInt(exclamations))]
             ELSE IF FGreater(s.positiveScore, s.negativeScore)
               THEN [s EXCEPT !.positiveScore = FAdd(@, FromInt(exclamations))]
             ELSE s
        ELSE s

ExclamationStep(txt, s) ==
  LET exclamations == countExclamations(txt)
  IN  IF exclamations > 0
        THEN IF FGreater(s.negativeScore, s.positiveScore)
               THEN [s EXCEPT !.negativeScore = FAdd(@, FMulInt(exclamations, FHalf))]
             ELSE IF FGreater(s.positiveScore, s.negativeScore)
               THEN [s EXCEPT !.positiveScore = FAdd(@, FMulInt(exclamations, FHalf))]
             ELSE s
        ELSE s

BaseScoreStep(s) ==
  IF s.positiveScore = FZero /\ s.negativeScore = FZero /\ s.neutralScore = FZero
    THEN [s EXCEPT !.neutralScore = FOne]
    ELSE s

\* variant: no floor for a zero neutral score
SentimentArray_noFloor(s) ==
  << [label |-> "POSITIVE", score |-> s.positiveScore],
     [label |-> "NEGATIVE", score |-> s.negativeScore],
     [label |-> "NEUTRAL",  score |-> s.neutralScore] >>

\* the sentiment array as created, before normalization
SentimentArray(s) ==
  << [label |-> "POSITIVE", score |-> s.positiveScore],
     [label |-> "NEGATIVE", score |-> s.negativeScore],
     [label |-> "NEUTRAL",  score |-> IF s.neutralScore = FZero THEN FTenth
                                                               ELSE s.neutralScore] >>

RECURSIVE SumScores(_, _)
\* sentiment.reduce((sum, item) => sum + item.score, sum)
SumScores(entries, sum) ==
  IF entries = <<>> THEN sum
  ELSE SumScores(Tail(entries), FAdd(sum, Head(entries).score))

NormalizationTotal(entries) == SumScores(entries, FZero)

\* variant: the last entry is left as it is
Normalize_skipLast(entries, sum) ==
  [i \in 1..Len(entries) |->
     IF i < Len(entries) THEN [entries[i] EXCEPT !.score = FDiv(@, sum)]
                           ELSE entries[i]]

\* sentiment.forEach(item => item.score = item.score / total)
Normalize(entries, sum) ==
  [i \in 1..Len(entries) |-> [entries[i] EXCEPT !.score = FDiv(@, sum)]]

\* variant: an item goes before the entries of equal score
InsertByScore_beforeEqual(sorted, item) ==
  LET behind == {j \in 1..Len(sorted) : BigLeq(sorted[j].score, item.score)}
      at     == IF behind = {} THEN Len(sorted) + 1
                ELSE CHOOSE j \in behind : \A k \in behind : j <= k
  IN  SubSeq(sorted, 1, at - 1) \o <<item>> \o SubSeq(sorted, at, Len(sorted))

\* item goes after every entry the comparator (b.score - a.score) does not put behind it
InsertByScore(sorted, item) ==
  LET behind == {j \in 1..Len(sorted) : BigLess(sorted[j].score, item.score)}
      at     == IF behind = {} THEN Len(sorted) + 1
                ELSE CHOOSE j \in behind : \A k \in behind : j <= k
  IN  SubSeq(sorted, 1, at - 1) \o <<item>> \o SubSeq(sorted, at, Len(sorted))

RECURSIVE SortInto(_, _)
SortInto(sorted, rest) ==
  IF rest = <<>> THEN sorted
  ELSE SortInto(InsertByScore(sorted, Head(rest)), Tail(rest))

\* sentiment.sort((a, b) => b.score - a.score): descending, stable
SortByScore(entries) == SortInto(<<>>, entries)

SelectLonger(words, n) == SelectSeq(words, LAMBDA w : Len(w) > n)

\* variant: tokens of 3 characters are kept (>= 3 for > 3)
extractKeywords_keepThree(txt) ==
  LET words == SelectLonger(splitNonWord(toLowerCase(txt)), 2)
  IN  Take(SelectSeq(words, LAMBDA w : w \notin SeqToSet(commonWords)), 5)

extractKeywords(txt) ==
  LET words == SelectLonger(splitNonWord(toLowerCase(txt)), 3)
  IN  Take(SelectSeq(words, LAMBDA w : w \notin SeqToSet(commonWords)), 5)

\* the scores that enter normalization
RawScores(input) ==
  LET txt == toLowerCase(input)
  IN  BaseScoreStep(ExclamationStep(txt, StrongPhraseStep(txt, WordCounts(txt))))

\* the AnalysisResult of one scoring pass that completes at time `now`
analyzeSentiment(input, now) ==
  LET created   == SentimentArray(RawScores(input))
      entries   == SortByScore(Normalize(created, NormalizationTotal(created)))
  IN  [sentiment  |-> entries,
       confidence |-> entries[1].score,
       keywords   |-> extractKeywords(input),
       text       |-> input,
       timestamp  |-> now]

(***************************************************************************)
(* State.                                                                  *)
(***************************************************************************)
VARIABLES
  \* SentimentDashboard: the React state
  text,            \* the text field
  isAnalyzing,     \* the "pending" flag that disables the Analyze button
  results,         \* the recent results, newest first
  currentResult,   \* the result on display, or Null
  fileName,        \* the name of the loaded file, held as <<name>>, or Null
  \* SentimentDashboard: what is in flight
  pending,         \* the scoring passes waiting on their delay timer, oldest first
  reads,           \* the file reads whose onload has not run yet
  alerts,          \* the number of alerts raised
  picked,          \* the files selected in the file dialog, in order
  clock,           \* the number of scoring passes completed (the timestamp source)
  \* history, for stating properties only
  completedLog,    \* every result completed since the last reset, newest first
  staleStamps,     \* timestamps of the results completed since the last reset whose
                   \* pass was triggered before that reset
  resetSeen,       \* whether handleNewAnalysis has run
  \* one scoring pass, block by block
  pc, inputText, lowered, scores, sentiment, total, result,
  \* one keyword extraction
  kwTokens, kwText, kwOut,
  \* what analyzeSentiment returns for each text the dashboard can analyze; the
  \* scoring depends on the text alone, so it is evaluated once, at the start
  analyzed,
  \* a handler applied on its own
  called,          \* the name of the handler or component that has run, or Idle
  csv,             \* the rows of the file exportToCSV has written, or Idle
  features         \* the features SentimentExplanation has found, or Idle

dashVars   == <<text, isAnalyzing, results, currentResult, fileName, pending, reads,
                alerts, picked, clock, completedLog, staleStamps, resetSeen>>
scorerVars == <<pc, inputText, lowered, scores, sentiment, total, result>>
kwVars     == <<kwTokens, kwText, kwOut>>
memoVars   == <<analyzed>>
callVars   == <<called, csv, features>>
vars       == <<dashVars, scorerVars, kwVars, memoVars, callVars>>

\* null: no result on display, no file loaded
Null == <<>>
\* a local of a function that is not running
Idle == "idle"

\* the dashboard as constructed (useState initial values)
DashInit ==
  /\ text = ""
  /\ isAnalyzing = FALSE
  /\ results = <<>>
  /\ currentResult = Null
  /\ fileName = Null
  /\ pending = <<>>
  /\ reads = <<>>
  /\ alerts = 0
  /\ picked = <<>>
  /\ clock = 0
  /\ completedLog = <<>>
  /\ staleStamps = {}
  /\ resetSeen = FALSE

\* no scoring pass under way
ScorerIdle ==
  /\ pc = "idle"
  /\ inputText = ""
  /\ lowered = ""
  /\ scores = Idle
  /\ sentiment = <<>>
  /\ total = Idle
  /\ result = Idle

KwIdle ==
  /\ kwTokens = <<>>
  /\ kwText = ""
  /\ kwOut = Idle

\* no handler applied on its own
CallIdle ==
  /\ called = Idle
  /\ csv = Idle
  /\ features = Idle

(***************************************************************************)
(* The scoring pass on its own: the inputs are texts built from list      *)
(* words, strong phrases and exclamation marks.                            *)
(***************************************************************************)
MaxWords == 2
MaxExclamations == 2

Filler       == "The film was "
PositivePick == <<"good ", "GREAT ", "lovely ">>
NegativePick == <<"bad ", "Worst ", "sadly ">>
NeutralPick  == <<"okay ", "Fine ", "average ">>
PhraseMixes  == <<"", "a waste of money ", "Never again, never again ",
                  "no one should be completely disappointed ">>

RECURSIVE PickWords(_, _)
\* the first n words of the list (taken cyclically), concatenated
PickWords(list, n) ==
  IF n = 0 THEN "" ELSE PickWords(list, n - 1) \o list[((n - 1) % Len(list)) + 1]

RECURSIVE RepeatStr(_, _)
RepeatStr(str, n) == IF n = 0 THEN "" ELSE str \o RepeatStr(str, n - 1)

BuildText(np, nn, nu, mix, ne) ==
  Filler \o PickWords(PositivePick, np) \o PickWords(NegativePick, nn)
         \o PickWords(NeutralPick, nu) \o PhraseMixes[mix] \o RepeatStr("!", ne)

ScorerInputs ==
  {BuildText(np, nn, nu, mix, ne) :
     np \in 0..MaxWords, nn \in 0..MaxWords, nu \in 0..MaxWords,
     mix \in 1..Len(PhraseMixes), ne \in 0..MaxExclamations}

InitScorer ==
  /\ DashInit
  /\ KwIdle
  /\ CallIdle
  /\ analyzed = <<>>
  /\ pc = "count"
  /\ inputText \in ScorerInputs
  /\ lowered = ""
  /\ scores = Idle
  /\ sentiment = <<>>
  /\ total = Idle
  /\ result = Idle

\* lines 46-71: lower-case the input and count the list words
CountSentimentWords ==
  /\ pc = "count"
  /\ lowered' = toLowerCase(inputText)
  /\ scores' = WordCounts(lowered')
  /\ pc' = "phrases"
  /\ UNCHANGED <<inputText, sentiment, total, result>>
  /\ UNCHANGED <<dashVars, kwVars, memoVars, callVars>>

\* lines 73-79
CheckStrongPhrases ==
  /\ pc = "phrases"
  /\ scores' = StrongPhraseStep(lowered, scores)
  /\ pc' = "exclaim"
  /\ UNCHANGED <<inputText, lowered, sentiment, total, result>>
  /\ UNCHANGED <<dashVars, kwVars, memoVars, callVars>>

\* lines 81-89
CheckExclamations ==
  /\ pc = "exclaim"
  /\ scores' = ExclamationStep(lowered, scores)
  /\ pc' = "base"
  /\ UNCHANGED <<inputText, lowered, sentiment, total, result>>
  /\ UNCHANGED <<dashVars, kwVars, memoVars, callVars>>

\* lines 91-94
SetBaseScores ==
  /\ pc = "base"
  /\ scores' = BaseScoreStep(scores)
  /\ pc' = "normalize"
  /\ UNCHANGED <<inputText, lowered, sentiment, total, result>>
  /\ UNCHANGED <<dashVars, kwVars, memoVars, callVars>>

\* lines 96-105
CreateAndNormalize ==
  /\ pc = "normalize"
  /\ total' = NormalizationTotal(SentimentArray(scores))
  /\ sentiment' = Normalize(SentimentArray(scores), total')
  /\ pc' = "sort"
  /\ UNCHANGED <<inputText, lowered, scores, result>>
  /\ UNCHANGED <<dashVars, kwVars, memoVars, callVars>>

\* lines 107-108
SortSentiment ==
  /\ pc = "sort"
  /\ sentiment' = SortByScore(sentiment)
  /\ pc' = "build"
  /\ UNCHANGED <<inputText, lowered, scores, total, result>>
  /\ UNCHANGED <<dashVars, kwVars, memoVars, callVars>>

\* lines 110-116
BuildResult ==
  /\ pc = "build"
  /\ result' = [sentiment  |-> sentiment,
                confidence |-> sentiment[1].score,
                keywords   |-> extractKeywords(inputText),
                text       |-> inputText,
                timestamp  |-> clock]
  /\ pc' = "done"
  /\ UNCHANGED <<inputText, lowered, scores, sentiment, total>>
  /\ UNCHANGED <<dashVars, kwVars, memoVars, callVars>>

NextScorer ==
  \/ CountSentimentWords
  \/ CheckStrongPhrases
  \/ CheckExclamations
  \/ SetBaseScores
  \/ CreateAndNormalize
  \/ SortSentiment
  \/ BuildResult

SpecScorer == InitScorer /\ [][NextScorer]_vars

\* the block-by-block pass computes what analyzeSentiment returns
ScorerAgrees == pc = "done" => result = analyzeSentiment(inputText, clock)

(***************************************************************************)
(* extractKeywords on its own: the inputs are sequences of tokens (content *)
(* words, stop words, short words) joined by separators.                   *)
(***************************************************************************)
MaxTokens == 7

TokenKinds == {"key", "stop", "short"}
KeyPick    == <<"wonderful", "Movie", "These", "FANTASTIC", "memorable", "actors",
                "story_2", "thats">>
StopPick   == <<"That", "this", "SHOULD", "with", "There", "their", "would", "been">>
ShortPick  == <<"was", "and", "a", "the", "It", "so", "we", "of">>
SepPick    == <<" ", ", ", "... ", "\n", " - ", "! ", " ", "; ">>

Cyclic(list, i) == list[((i - 1) % Len(list)) + 1]

\* the i-th token of the input described by the kinds
TokenAt(kinds, i) ==
  CASE kinds[i] = "key"   -> Cyclic(KeyPick, i)
    [] kinds[i] = "stop"  -> Cyclic(StopPick, i)
    [] kinds[i] = "short" -> Cyclic(ShortPick, i)

RECURSIVE JoinTokens(_, _)
\* the first n tokens, each followed by a separator
JoinTokens(kinds, n) ==
  IF n = 0 THEN "" ELSE JoinTokens(kinds, n - 1) \o TokenAt(kinds, n) \o Cyclic(SepPick, n)

KeywordInputs == UNION {[1..n -> TokenKinds] : n \in 0..MaxTokens}

InitKeywords ==
  /\ DashInit
  /\ ScorerIdle
  /\ CallIdle
  /\ analyzed = <<>>
  /\ kwTokens \in KeywordInputs
  /\ kwText = JoinTokens(kwTokens, Len(kwTokens))
  /\ kwOut = Idle

\* lines 154-159
ExtractKeywords ==
  /\ kwOut = Idle
  /\ kwOut' = extractKeywords(kwText)
  /\ UNCHANGED <<kwTokens, kwText>>
  /\ UNCHANGED <<dashVars, scorerVars, memoVars, callVars>>

NextKeywords == ExtractKeywords

SpecKeywords == InitKeywords /\ [][NextKeywords]_vars

(***************************************************************************)
(* The dashboard: the event handlers of SentimentDashboard.  Every handler *)
(* runs to completion on the single UI thread, and React has re-rendered   *)
(* (so the buttons reflect the new state) before the next event is         *)
(* dispatched.                                                             *)
(***************************************************************************)
MaxAnalyses == 11
MaxSelections == 1

\* what the user types into the text field
TypedTexts == {"", "I love it!"}

\* the files the user can select
Files ==
  { [name |-> "review.txt", type |-> "text/plain",    content |-> "a waste of money"],
    [name |-> "notes.md",   type |-> "text/markdown", content |-> " \n"],
    [name |-> "LOG.TXT",    type |-> "",              content |-> "bad"] }

startsWith(str, prefix) == MatchAt(str, prefix, 1)
endsWith(str, suffix) ==
  Len(str) >= Len(suffix) /\ MatchAt(str, suffix, Len(str) - Len(suffix) + 1)

\* line 241: onChange={(e) => setText(e.target.value)}
TypeText ==
  /\ \E t \in TypedTexts : text' = t
  /\ UNCHANGED <<isAnalyzing, results, currentResult, fileName, pending, reads, alerts,
                 picked, clock, completedLog, staleStamps, resetSeen>>
  /\ UNCHANGED <<scorerVars, kwVars, memoVars, callVars>>

\* line 271: the Analyze button is enabled
AnalyzeEnabled_ignoresPending == trim(text) # ""

AnalyzeEnabled == trim(text) # "" /\ ~isAnalyzing

\* variant: the pending flag is not raised (setIsAnalyzing(true) left out)
handleAnalyze_noFlag ==
  IF trim(text) = ""
    THEN UNCHANGED dashVars
    ELSE /\ pending' = Append(pending, [inputText |-> text, stale |-> FALSE])
         /\ UNCHANGED <<isAnalyzing, text, results, currentResult, fileName, reads, alerts,
                        picked, clock, completedLog, staleStamps, resetSeen>>

\* variant: the text is tested without trim()
handleAnalyze_noTrim ==
  IF text = ""
    THEN UNCHANGED dashVars
    ELSE /\ isAnalyzing' = TRUE
         /\ pending' = Append(pending, [inputText |-> text, stale |-> FALSE])
         /\ UNCHANGED <<text, results, currentResult, fileName, reads, alerts, picked,
                        clock, completedLog, staleStamps, resetSeen>>

\* lines 161-164 and 40-44: handleAnalyze up to the await of the delay timer
handleAnalyze ==
  IF trim(text) = ""
    THEN UNCHANGED dashVars
    ELSE /\ isAnalyzing' = TRUE
         /\ pending' = Append(pending, [inputText |-> text, stale |-> FALSE])
         /\ UNCHANGED <<text, results, currentResult, fileName, reads, alerts, picked,
                        clock, completedLog, staleStamps, resetSeen>>

ClickAnalyze ==
  /\ AnalyzeEnabled
  /\ clock + Len(pending) < MaxAnalyses
  /\ handleAnalyze
  /\ UNCHANGED <<scorerVars, kwVars, memoVars, callVars>>

\* variant: the eleventh entry is kept (slice(0, 10) for slice(0, 9))
PrependResult_keepTen(res, prev) == <<res>> \o Take(prev, 10)

\* line 166: [result, ...prev.slice(0, 9)]
PrependResult(res, prev) == <<res>> \o Take(prev, 9)

\* the texts the Analyze button can be pressed on
FieldTexts == {t \in TypedTexts \cup {f.content : f \in Files} : trim(t) # ""}

\* analyzeSentiment of each of them, not yet stamped with its completion time
RECURSIVE AnalyzeAll(_)
AnalyzeAll(S) ==
  IF S = {}
    THEN <<>>
    ELSE LET t == CHOOSE u \in S : TRUE
         IN  <<analyzeSentiment(t, 0)>> \o AnalyzeAll(S \ {t})

\* the result of the pass on `input` that completes at time `now`
analyzeSentimentAt(input, now) ==
  LET i == CHOOSE j \in 1..Len(analyzed) : analyzed[j].text = input
  IN  [analyzed[i] EXCEPT !.timestamp = now]

\* lines 44-119 and 165-166: the delay timer of the oldest pass in flight fires;
\* the pass scores its input and handleAnalyze stores the result
AnalysisCompletes ==
  /\ pending # <<>>
  /\ LET pass == Head(pending)
         res  == analyzeSentimentAt(pass.inputText, clock + 1)
     IN  /\ isAnalyzing' = FALSE
         /\ currentResult' = res
         /\ results' = PrependResult(res, results)
         /\ completedLog' = <<res>> \o completedLog
         /\ staleStamps' = IF pass.stale THEN staleStamps \cup {res.timestamp}
                                         ELSE staleStamps
  /\ pending' = Tail(pending)
  /\ clock' = clock + 1
  /\ UNCHANGED <<text, fileName, reads, alerts, picked, resetSeen>>
  /\ UNCHANGED <<scorerVars, kwVars, memoVars, callVars>>

\* variant: the results list is not emptied (setResults([]) left out)
handleNewAnalysis_keepsResults ==
  /\ text' = ""
  /\ currentResult' = Null
  /\ fileName' = Null
  /\ UNCHANGED <<results, isAnalyzing, reads, alerts, picked, clock>>

\* lines 122-130
handleNewAnalysis ==
  /\ text' = ""
  /\ currentResult' = Null
  /\ results' = <<>>
  /\ fileName' = Null
  /\ UNCHANGED <<isAnalyzing, reads, alerts, picked, clock>>

\* lines 288-297: the New Analysis button is rendered while a result is on display
ClickNewAnalysis ==
  /\ currentResult # Null
  /\ handleNewAnalysis
  /\ completedLog' = <<>>
  /\ staleStamps' = {}
  /\ resetSeen' = TRUE
  /\ pending' = [i \in 1..Len(pending) |-> [pending[i] EXCEPT !.stale = TRUE]]
  /\ UNCHANGED <<scorerVars, kwVars, memoVars, callVars>>

\* variant: one failed test is enough to refuse the file (|| for &&)
FileRejected_either(file) == ~startsWith(file.type, "text/") \/ ~endsWith(file.name, ".txt")

\* line 136: the file is refused
FileRejected(file) == ~startsWith(file.type, "text/") /\ ~endsWith(file.name, ".txt")

\* lines 132-148
handleFileUpload(file) ==
  IF FileRejected(file)
    THEN /\ alerts' = alerts + 1
         /\ UNCHANGED reads
    ELSE /\ reads' = Append(reads, [content |-> file.content, name |-> file.name])
         /\ UNCHANGED alerts

\* line 133: the user selects a file in the dialog of the file input
SelectFile ==
  /\ Len(picked) < MaxSelections
  /\ \E file \in Files :
       /\ picked' = Append(picked, file)
       /\ handleFileUpload(file)
  /\ UNCHANGED <<text, isAnalyzing, results, currentResult, fileName, pending, clock,
                 completedLog, staleStamps, resetSeen>>
  /\ UNCHANGED <<scorerVars, kwVars, memoVars, callVars>>

\* lines 142-146: reader.onload of one of the reads in flight
FileLoaded ==
  /\ \E i \in 1..Len(reads) :
       /\ text' = reads[i].content
       /\ fileName' = <<reads[i].name>>
       /\ reads' = SubSeq(reads, 1, i - 1) \o SubSeq(reads, i + 1, Len(reads))
  /\ UNCHANGED <<isAnalyzing, results, currentResult, pending, alerts, picked, clock,
                 completedLog, staleStamps, resetSeen>>
  /\ UNCHANGED <<scorerVars, kwVars, memoVars, callVars>>

Init == DashInit /\ ScorerIdle /\ KwIdle /\ CallIdle /\ analyzed = AnalyzeAll(FieldTexts)

Next ==
  \/ TypeText
  \/ ClickAnalyze
  \/ AnalysisCompletes
  \/ ClickNewAnalysis
  \/ SelectFile
  \/ FileLoaded

Spec == Init /\ [][Next]_vars

\* line 44: the delay timer of a pass in flight fires after 1500 ms
FairSpec == Spec /\ WF_vars(AnalysisCompletes)

(***************************************************************************)
(* ExportResults: exportToCSV on its own.  The component is rendered       *)
(* inside the dashboard's {currentResult && ...} block and is handed       *)
(* the dashboard's results and currentResult.                              *)
(***************************************************************************)
MaxResults == 3

RECURSIVE numberToString(_)
\* String(n) for an integer n >= 0
numberToString(n) ==
  IF n < 10 THEN CharAt(DigitChars, n + 1)
  ELSE numberToString(n \div 10) \o CharAt(DigitChars, (n % 10) + 1)

RECURSIVE IntegerBits(_, _)
\* the integer part of a double, from bit k of it upwards
IntegerBits(N, k) ==
  IF FracBits + k >= TotalBits THEN 0
  ELSE Bit(N, FracBits + k) + 2 * IntegerBits(N, k + 1)

\* Math.round(x): the nearest integer, halves upwards
MathRound(X) == IntegerBits(X, 0) + Bit(X, FracBits - 1)

\* Math.round(score * 100) + '%', with (score || 0) for a score that is NaN or 0
percent(score) ==
  LET x == IF score = NotFinite THEN FZero ELSE score
  IN  numberToString(MathRound(FMulInt(100, x))) \o "%"

RECURSIVE join(_, _)
\* parts.join(sep)
join(parts, sep) ==
  IF parts = <<>> THEN ""
  ELSE IF Len(parts) = 1 THEN parts[1]
  ELSE parts[1] \o sep \o join(Tail(parts), sep)

RECURSIVE doubleQuotes(_, _)
\* str.replace(/"/g, '""'), from position i on
doubleQuotes(str, i) ==
  IF i > Len(str) THEN ""
  ELSE (IF CharAt(str, i) = "\"" THEN "\"\"" ELSE CharAt(str, i)) \o doubleQuotes(str, i + 1)

\* result.timestamp.toISOString(): the completion time as text
toISOString(stamp) == "T" \o numberToString(stamp)

\* result.sentiment.find(s => s.label === label)?.score || 0
findScore(entries, label) ==
  LET found == SelectSeq(entries, LAMBDA e : e.label = label)
  IN  IF found = <<>> THEN FZero ELSE found[1].score

csvHeaders == <<"Timestamp", "Text", "Primary Sentiment", "Confidence", "Positive %",
                "Negative %", "Neutral %", "Keywords">>

\* lines 33-42: the row of one result
csvRow(res) ==
  join(<<toISOString(res.timestamp),
         "\"" \o doubleQuotes(res.text, 1) \o "\"",
         res.sentiment[1].label,
         percent(res.confidence),
         percent(findScore(res.sentiment, "POSITIVE")),
         percent(findScore(res.sentiment, "NEGATIVE")),
         percent(findScore(res.sentiment, "NEUTRAL")),
         "\"" \o join(res.keywords, ", ") \o "\"">>, ",")

\* line 28: currentResult ? [currentResult] : results
dataToExport(ress, current) == IF current # Null THEN <<current>> ELSE ress

\* lines 30-43: the rows of csvContent, which are joined by '\n'
csvContent(ress, current) ==
  LET data == dataToExport(ress, current)
  IN  <<join(csvHeaders, ",")>> \o [i \in 1..Len(data) |-> csvRow(data[i])]

\* lines 25-54: the file written, if any
exportToCSV ==
  /\ called' = "exportToCSV"
  /\ csv' = IF currentResult = Null /\ Len(results) = 0
              THEN csv
              ELSE csvContent(results, currentResult)

\* the texts of the sessions handed to the component
ExportTexts == FieldTexts \cup {"good"}

\* the sessions handed to the component: n results over these texts,
\* newest first, the newest of them on display
InitExport ==
  /\ ScorerIdle
  /\ KwIdle
  /\ CallIdle
  /\ analyzed = AnalyzeAll(ExportTexts)
  /\ text = ""
  /\ isAnalyzing = FALSE
  /\ fileName = Null
  /\ pending = <<>>
  /\ reads = <<>>
  /\ alerts = 0
  /\ picked = <<>>
  /\ \E n \in 1..MaxResults :
       /\ clock = n
       /\ \E pick \in [1..n -> 1..Len(analyzed)] :
            results = [i \in 1..n |-> [analyzed[pick[i]] EXCEPT !.timestamp = n + 1 - i]]
  /\ currentResult = results[1]
  /\ completedLog = results
  /\ staleStamps = {}
  /\ resetSeen = FALSE

\* lines 170-173: the CSV button
ClickExportCSV ==
  /\ called = Idle
  /\ exportToCSV
  /\ UNCHANGED <<features, dashVars, scorerVars, kwVars, memoVars>>

NextExport == ClickExportCSV

SpecExport == InitExport /\ [][NextExport]_vars

(***************************************************************************)
(* handleAnalyze on its own: the handler is applied in dashboard states    *)
(* with any text in the field, blank ones included.                        *)
(***************************************************************************)
\* the texts the text field can hold
AllTexts == TypedTexts \cup {f.content : f \in Files}

\* the files whose content can have been loaded
LoadableFiles == {f \in Files : ~FileRejected(f)}

InitHandleAnalyze ==
  /\ ScorerIdle
  /\ KwIdle
  /\ CallIdle
  /\ analyzed = AnalyzeAll(FieldTexts)
  /\ text \in AllTexts
  /\ \/ fileName = Null
     \/ \E f \in LoadableFiles : fileName = <<f.name>>
  /\ \E busy \in BOOLEAN :
       /\ isAnalyzing = busy
       /\ pending = IF busy THEN <<[inputText |-> "I love it!", stale |-> FALSE]>>
                            ELSE <<>>
  /\ reads = <<>>
  /\ alerts = 0
  /\ picked = <<>>
  /\ \E n \in 0..2 :
       /\ clock = n
       /\ results = [i \in 1..n |-> [analyzed[i] EXCEPT !.timestamp = n + 1 - i]]
  /\ currentResult = IF results = <<>> THEN Null ELSE results[1]
  /\ completedLog = results
  /\ staleStamps = {}
  /\ resetSeen = FALSE

\* line 161: handleAnalyze is called
InvokeHandleAnalyze ==
  /\ called = Idle
  /\ called' = "handleAnalyze"
  /\ handleAnalyze
  /\ UNCHANGED <<csv, features, scorerVars, kwVars, memoVars>>

NextHandleAnalyze == InvokeHandleAnalyze

SpecHandleAnalyze == InitHandleAnalyze /\ [][NextHandleAnalyze]_vars

(***************************************************************************)
(* SentimentExplanation: analyzeTextFeatures on the text of the result the *)
(* component is given.                                                     *)
(***************************************************************************)
\* (str.match(/[A-Z]{2,}/g) || []).length: the runs of two or more capitals
allCapsCount(str) ==
  Cardinality({i \in 1..(Len(str) - 1) :
                 /\ CharIn(CharAt(str, i), UpperLetters)
                 /\ CharIn(CharAt(str, i + 1), UpperLetters)
                 /\ (i = 1 \/ ~CharIn(CharAt(str, i - 1), UpperLetters))})

\* words.filter(word => lowerText.includes(word))
foundIn(low, words) == SelectSeq(words, LAMBDA w : includes(low, w))

\* `${n} ${what}${n > 1 ? 's' : ''} detected`
detected(n, what) ==
  numberToString(n) \o " " \o what \o (IF n > 1 THEN "s" ELSE "") \o " detected"

\* variant: the strong negative phrases are not reported
analyzeTextFeatures_noPhrases(str) ==
  LET low           == toLowerCase(str)
      foundPositive == foundIn(low, positiveWords)
      foundNegative == foundIn(low, negativeWords)
      exclamations  == matchCount(str, "!")
      allCaps       == allCapsCount(str)
  IN  (IF Len(foundPositive) > 0
         THEN <<[type |-> "positive",
                 description |-> "Contains positive words: " \o join(foundPositive, ", "),
                 impact |-> "Increases positive sentiment"]>>
         ELSE <<>>)
      \o (IF Len(foundNegative) > 0
            THEN <<[type |-> "negative",
                    description |-> "Contains negative words: " \o join(foundNegative, ", "),
                    impact |-> "Increases negative sentiment"]>>
            ELSE <<>>)
      \o (IF exclamations > 0
            THEN <<[type |-> "emotional",
                    description |-> detected(exclamations, "exclamation mark"),
                    impact |-> "Indicates emotional intensity"]>>
            ELSE <<>>)
      \o (IF allCaps > 0
            THEN <<[type |-> "emotional",
                    description |-> detected(allCaps, "all-caps word"),
                    impact |-> "Indicates strong emphasis or emotion"]>>
            ELSE <<>>)

\* lines 23-84
analyzeTextFeatures(str) ==
  LET low                 == toLowerCase(str)
      foundPositive       == foundIn(low, positiveWords)
      foundNegative       == foundIn(low, negativeWords)
      foundStrongNegative == foundIn(low, strongNegativePhrases)
      exclamations        == matchCount(str, "!")
      allCaps             == allCapsCount(str)
  IN  (IF Len(foundPositive) > 0
         THEN <<[type |-> "positive",
                 description |-> "Contains positive words: " \o join(foundPositive, ", "),
                 impact |-> "Increases positive sentiment"]>>
         ELSE <<>>)
      \o (IF Len(foundNegative) > 0
            THEN <<[type |-> "negative",
                    description |-> "Contains negative words: " \o join(foundNegative, ", "),
                    impact |-> "Increases negative sentiment"]>>
            ELSE <<>>)
      \o (IF Len(foundStrongNegative) > 0
            THEN <<[type |-> "negative",
                    description |-> "Contains strong negative phrases: "
                                      \o join(foundStrongNegative, ", "),
                    impact |-> "Strongly increases negative sentiment"]>>
            ELSE <<>>)
      \o (IF exclamations > 0
            THEN <<[type |-> "emotional",
                    description |-> detected(exclamations, "exclamation mark"),
                    impact |-> "Indicates emotional intensity"]>>
            ELSE <<>>)
      \o (IF allCaps > 0
            THEN <<[type |-> "emotional",
                    description |-> detected(allCaps, "all-caps word"),
                    impact |-> "Indicates strong emphasis or emotion"]>>
            ELSE <<>>)

\* texts with capitals, on top of the texts of the scoring pass
CapitalTexts == {"OKAY then", "It was FINE, Regular", "A b C", "NASA and ESA",
                 "GREAT. Never Again", "typical"}

ExplanationInputs == ScorerInputs \cup CapitalTexts

\* the component is given the result of a scoring pass
InitExplanation ==
  /\ DashInit
  /\ KwIdle
  /\ CallIdle
  /\ analyzed = <<>>
  /\ pc = "done"
  /\ inputText \in ExplanationInputs
  /\ lowered = Idle
  /\ scores = Idle
  /\ sentiment = <<>>
  /\ total = Idle
  /\ result = analyzeSentiment(inputText, 0)

\* line 86: const features = analyzeTextFeatures(result.text)
RenderExplanation ==
  /\ called = Idle
  /\ called' = "SentimentExplanation"
  /\ features' = analyzeTextFeatures(result.text)
  /\ UNCHANGED <<csv, dashVars, scorerVars, kwVars, memoVars>>

NextExplanation == RenderExplanation

SpecExplanation == InitExplanation /\ [][NextExplanation]_vars

(***************************************************************************)
(* Properties of the scoring pass (under SpecScorer).                      *)
(***************************************************************************)
Labels == <<"POSITIVE", "NEGATIVE", "NEUTRAL">>

\* the score the sentiment array gives the label
ScoreOf(arr, label) == arr[CHOOSE i \in 1..Len(arr) : arr[i].label = label].score

\* 0 <= v <= 1 for a double v
InUnitInterval(v) == v # NotFinite /\ BigLeq(FZero, v) /\ BigLeq(v, FOne)

\* the tolerance 2^-51 (two units in the last place of 1)
Tolerance == Pow2(FracBits - 51)

\* |v - 1| <= 2^-51 for a natural v (scaled by 2^FracBits)
NearOne(v) ==
  /\ v # NotFinite
  /\ BigLeq(v, BigAdd(FOne, Tolerance))
  /\ BigLeq(BigSub(FOne, Tolerance), v)

\* the exact (real-number) sum of the three returned scores
ExactSum(arr) == BigAdd(BigAdd(arr[1].score, arr[2].score), arr[3].score)

\* the sum JavaScript computes over the returned array, left to right
FloatSum(arr) == SumScores(arr, FZero)

\* C1 as stated: the three returned scores sum to exactly 1 and each lies in [0,1].
C1_SumExactlyOne ==
  pc = "done" =>
    /\ FloatSum(result.sentiment) = FOne
    /\ \A i \in 1..3 : InUnitInterval(result.sentiment[i].score)

\* C1 (amended): the three returned scores sum to 1 within floating-point
\* tolerance (their exact sum and their left-to-right double sum are both
\* within 2^-51 of 1), and each lies in [0,1].
C1_SumWithinTolerance ==
  pc = "done" =>
    /\ \A i \in 1..3 : InUnitInterval(result.sentiment[i].score)
    /\ NearOne(ExactSum(result.sentiment))
    /\ NearOne(FloatSum(result.sentiment))

\* a completed pass whose double sum is not 1
C1_Witness ==
  /\ pc = "done"
  /\ FloatSum(result.sentiment) # FOne
  /\ scores.positiveScore # FZero /\ scores.negativeScore # FZero

\* the place of a label in the array as created
Rank(label) == CHOOSE i \in 1..Len(Labels) : Labels[i] = label

\* C2: the sentiment sequence of a result holds exactly three entries, one per
\* label, in non-increasing score order, entries of equal score in the order
\* POSITIVE, NEGATIVE, NEUTRAL, and confidence is the first (maximal) score.
C2_SortedStable ==
  pc = "done" =>
    LET arr == result.sentiment
    IN  /\ Len(arr) = 3
        /\ \A l \in SeqToSet(Labels) : Cardinality({i \in 1..3 : arr[i].label = l}) = 1
        /\ \A i, j \in 1..3 :
             i < j => /\ BigLeq(arr[j].score, arr[i].score)
                      /\ arr[i].score = arr[j].score => Rank(arr[i].label) < Rank(arr[j].label)
        /\ result.confidence = arr[1].score
        /\ \A i \in 1..3 : BigLeq(arr[i].score, result.confidence)
        \* the sort permutes the normalized array
        /\ \A l \in SeqToSet(Labels) :
             ScoreOf(arr, l) = FDiv(ScoreOf(SentimentArray(scores), l), total)

\* a result with two entries of equal score that the sort had to move past another
C2_Witness ==
  /\ pc = "done"
  /\ result.sentiment[2].score = result.sentiment[3].score
  /\ result.sentiment[1].label = "NEUTRAL"
  /\ result.sentiment[2].score # FZero

\* no list word and no strong phrase occurs in the lower-cased input
NoSignal(input) ==
  LET low == toLowerCase(input)
  IN  \A w \in SeqToSet(positiveWords) \cup SeqToSet(negativeWords)
                \cup SeqToSet(neutralWords) \cup SeqToSet(strongNegativePhrases) :
        \A i \in 1..Len(low) : ~MatchAt(low, w, i)

\* the number of exclamation marks of the input
Marks(input) == Cardinality({i \in 1..Len(input) : CharAt(input, i) = "!"})

\* C6: for an input without list words and strong phrases (whatever its
\* exclamation marks), NEUTRAL ranks first with score 1, confidence is 1, and
\* POSITIVE and NEGATIVE score 0.
C6_DefaultNeutral ==
  (pc = "done" /\ NoSignal(inputText)) =>
    /\ result.sentiment[1] = [label |-> "NEUTRAL", score |-> FOne]
    /\ result.confidence = FOne
    /\ ScoreOf(result.sentiment, "POSITIVE") = FZero
    /\ ScoreOf(result.sentiment, "NEGATIVE") = FZero

C6_Witness ==
  /\ pc = "done"
  /\ NoSignal(inputText)
  /\ Marks(inputText) > 0
  /\ result.sentiment[1].label = "NEUTRAL"

\* C7: the neutral score that enters normalization is strictly positive (the
\* raw count when nonzero, 1 on the all-zero path, otherwise the floor 0.1), the
\* divisor is not zero, every score of the result is a finite number, and the
\* NEUTRAL score of the result is strictly greater than 0.
C7_NeutralPositive ==
  pc \in {"sort", "build", "done"} =>
    LET raw      == ExclamationStep(lowered, StrongPhraseStep(lowered, WordCounts(lowered)))
        entering == SentimentArray(scores)[3].score
    IN  /\ entering = (IF raw.neutralScore # FZero THEN raw.neutralScore
                       ELSE IF raw.positiveScore = FZero /\ raw.negativeScore = FZero
                              THEN FOne
                              ELSE FTenth)
        /\ FGreater(entering, FZero)
        /\ total # FZero /\ total # NotFinite
        /\ \A i \in 1..3 : sentiment[i].score # NotFinite
        /\ FGreater(ScoreOf(sentiment, "NEUTRAL"), FZero)

\* a result whose neutral score came from the floor
C7_Witness ==
  /\ pc = "done"
  /\ scores.neutralScore = FZero
  /\ FGreater(ScoreOf(result.sentiment, "NEUTRAL"), FZero)
  /\ result.sentiment[3].label = "NEUTRAL"

\* C8: the exclamation adjustment adds 0.5 times the number of exclamation
\* marks to negativeScore when it is strictly the larger, to positiveScore when
\* that is strictly the larger, changes neither on a tie or without
\* exclamation marks, and never changes neutralScore.
C8_ExclamationAdjustment ==
  [][pc = "exclaim" =>
       LET bonus == FMulInt(Marks(inputText), FHalf)
           pos   == scores.positiveScore
           neg   == scores.negativeScore
       IN  /\ scores'.neutralScore = scores.neutralScore
           /\ FGreater(neg, pos) =>
                /\ scores'.negativeScore = FAdd(neg, bonus)
                /\ scores'.positiveScore = pos
           /\ FGreater(pos, neg) =>
                /\ scores'.positiveScore = FAdd(pos, bonus)
                /\ scores'.negativeScore = neg
           /\ (pos = neg \/ Marks(inputText) = 0) => scores' = scores
           \* the comparison is on the scores after the phrase weighting
           /\ scores = StrongPhraseStep(lowered, WordCounts(lowered))]_vars

\* after the adjustment: two exclamation marks raised the larger score by 1, here
\* a negative score that exceeds the positive one only by its phrase weight
C8_Witness ==
  /\ pc = "base"
  /\ Marks(inputText) = 2
  /\ LET before == StrongPhraseStep(lowered, WordCounts(lowered))
     IN  /\ scores.negativeScore = FAdd(before.negativeScore, FOne)
         /\ FGreater(before.positiveScore, WordCounts(lowered).negativeScore)

RECURSIVE SumOver(_, _)
\* the sum of Count(w) over the words w of the list
SumOver(Count(_), list) ==
  IF list = <<>> THEN 0 ELSE Count(Head(list)) + SumOver(Count, Tail(list))

\* the number of places of the text at which the word occurs
Occurrences(str, w) == Cardinality(MatchPositions(str, w))

\* C9: each strong-negative phrase that occurs in the lower-cased text adds
\* exactly 3 to negativeScore, once per distinct phrase however often it
\* occurs, on top of the per-occurrence counts of the negative list words;
\* positiveScore and neutralScore are not changed by the phrase step.
C9_StrongPhraseWeight ==
  [][pc = "phrases" =>
       LET low     == toLowerCase(inputText)
           present == {ph \in SeqToSet(strongNegativePhrases) : Occurrences(low, ph) > 0}
           words   == SumOver(LAMBDA w : Occurrences(low, w), negativeWords)
       IN  /\ Len(strongNegativePhrases) = 4
           /\ scores.negativeScore = FromInt(words)
           /\ scores'.negativeScore = FromInt(words + 3 * Cardinality(present))
           /\ scores'.positiveScore = scores.positiveScore
           /\ scores'.neutralScore = scores.neutralScore]_vars

\* after the phrase step, for a text in which one phrase occurs twice
C9_Witness ==
  /\ pc = "exclaim"
  /\ Occurrences(lowered, "never again") = 2
  /\ scores.negativeScore = FAdd(WordCounts(lowered).negativeScore, FromInt(3))
  /\ WordCounts(lowered).negativeScore # FZero

(***************************************************************************)
(* Properties of extractKeywords (under SpecKeywords).                     *)
(***************************************************************************)
\* the tokens the input was built from, lower-cased
LowerTokens(kinds) == [i \in 1..Len(kinds) |-> toLowerCase(TokenAt(kinds, i))]

Qualifies(token) == Len(token) > 3 /\ token \notin SeqToSet(commonWords)

\* C10: extractKeywords returns the first 5 (or fewer) lower-cased tokens of the
\* text that are longer than 3 characters and not in the 12-word stop list, in
\* their order of appearance; no returned token is a stop word or has length 3
\* or less, and no qualifying earlier token is skipped.
C10_FirstFiveKeywords ==
  kwOut # Idle =>
    LET qualifying == SelectSeq(LowerTokens(kwTokens), Qualifies)
    IN  /\ Len(commonWords) = 12
        /\ kwOut = SubSeq(qualifying, 1, IF Len(qualifying) < 5 THEN Len(qualifying) ELSE 5)
        /\ Len(kwOut) <= 5
        /\ \A k \in 1..Len(kwOut) : Qualifies(kwOut[k])

\* an extraction that dropped a stop word and a short word and cut a sixth keyword
C10_Witness ==
  /\ kwOut # Idle
  /\ Len(kwOut) = 5
  /\ Len(SelectSeq(LowerTokens(kwTokens), Qualifies)) = 6
  /\ kwTokens[1] = "stop"
  /\ kwOut[1] = "movie"


(***************************************************************************)
(* Properties of the dashboard (specification Spec).                       *)
(***************************************************************************)
\* C3: the results list holds at most 10 entries, and they are exactly the most
\* recent analyses completed since the last reset, newest first; the 11th-newest
\* and older are dropped.
C3_RecentTen ==
  /\ Len(results) <= 10
  /\ results = Take(completedLog, 10)

\* more than ten analyses have completed since the last reset: the oldest is dropped
C3_Witness ==
  /\ Len(completedLog) > 10
  /\ Len(results) = 10
  /\ results[10] = completedLog[10]

\* C4: at most one scoring pass is in flight at any time, and while one is in
\* flight isAnalyzing is true and the Analyze button is disabled, so that no second
\* pass can start.
C4_OnePassInFlight ==
  /\ Len(pending) <= 1
  /\ pending # <<>> => isAnalyzing /\ ~AnalyzeEnabled

\* a pass is in flight while the text field holds another, non-blank text (typed or
\* loaded from a file after the pass was triggered)
C4_Witness ==
  /\ Len(pending) = 1
  /\ trim(text) # ""
  /\ text # pending[1].inputText

\* C5: after a reset no result of an analysis triggered before that reset appears in
\* currentResult or in results: both hold only results of analyses triggered after
\* the reset, and so stay null and empty until such an analysis completes.
C5_ResetDiscards ==
  /\ \A i \in 1..Len(results) : results[i].timestamp \notin staleStamps
  /\ currentResult # Null => currentResult.timestamp \notin staleStamps


(***************************************************************************)
(* Properties of exportToCSV (specification SpecExport).                   *)
(***************************************************************************)
\* C11: the CSV export is the header row followed by exactly one data row for every
\* result in the results sequence handed to the component: n results, n data rows.
C11_RowPerResult == called = "exportToCSV" => Len(csv) = 1 + Len(results)


(***************************************************************************)
(* Properties of handleAnalyze (specification SpecHandleAnalyze).          *)
(***************************************************************************)
\* C12: handleAnalyze invoked while the text is empty or whitespace-only is a
\* no-op: no scoring pass starts, and isAnalyzing, currentResult, results, text
\* and fileName are left unchanged.
C12_BlankIsNoOp ==
  [][called' = "handleAnalyze" /\ trim(text) = ""
       => UNCHANGED <<pending, isAnalyzing, currentResult, results, text, fileName>>]_vars

\* the handler has run on a whitespace-only text while a result was on display
C12_Witness ==
  /\ called = "handleAnalyze"
  /\ text # ""
  /\ trim(text) = ""
  /\ currentResult # Null


(***************************************************************************)
(* Further properties of the dashboard (specification Spec).               *)
(***************************************************************************)
\* the MIME type starts with 'text/'
HasTextType(file) == Len(file.type) >= 5 /\ SubSeq(file.type, 1, 5) = "text/"

\* the name ends with '.txt'
HasTxtName(file) ==
  Len(file.name) >= 4 /\ SubSeq(file.name, Len(file.name) - 3, Len(file.name)) = ".txt"

\* C13: handleFileUpload rejects the selected file exactly when its MIME type does
\* not start with 'text/' and its name does not end with '.txt'; a rejected upload
\* raises the alert, starts no file read and leaves text, fileName, currentResult,
\* results and isAnalyzing unchanged.
C13_RejectedUpload ==
  [][picked' # picked =>
       LET file    == picked'[Len(picked')]
           refused == ~HasTextType(file) /\ ~HasTxtName(file)
       IN  /\ refused <=> alerts' = alerts + 1
           /\ refused <=> reads' = reads
           /\ refused => UNCHANGED <<text, fileName, currentResult, results, isAnalyzing>>
           /\ ~refused => /\ alerts' = alerts
                          /\ reads' = Append(reads, [content |-> file.content,
                                                     name |-> file.name])]_vars

\* a file with an upper-case extension and no MIME type has been refused while a
\* result was on display
C13_Witness ==
  /\ picked # <<>>
  /\ picked[Len(picked)].name = "LOG.TXT"
  /\ alerts = 1
  /\ reads = <<>>
  /\ currentResult # Null


\* C14: in every reachable state currentResult is null exactly when results is
\* empty, and when it is not null it is the first (newest) element of results.
C14_CurrentIsHead ==
  /\ currentResult = Null <=> results = <<>>
  /\ currentResult # Null => currentResult = results[1]

\* after a reset, several analyses have completed and the newest is on display
C14_Witness ==
  /\ resetSeen
  /\ Len(results) >= 2
  /\ currentResult = results[1]
  /\ currentResult # results[2]


(***************************************************************************)
(* Properties of the dashboard under FairSpec.                             *)
(***************************************************************************)
\* C15: every scoring pass started by handleAnalyze eventually completes;
\* isAnalyzing is true from trigger until completion and false at completion, and
\* at completion the result of the text captured at trigger time becomes
\* currentResult and the head of results, whatever happened to the text field
\* while the pass was in flight.
C15_PassCompletes ==
  /\ [](pending # <<>> => isAnalyzing)
  /\ [][clock' # clock =>
          /\ ~isAnalyzing'
          /\ currentResult' # Null
          /\ currentResult'.text = Head(pending).inputText
          /\ currentResult'.timestamp = clock'
          /\ results'[1] = currentResult']_vars
  /\ \A t \in FieldTexts :
       (pending # <<>> /\ Head(pending).inputText = t)
         ~> (pending = <<>> /\ ~isAnalyzing /\ currentResult # Null
               /\ currentResult.text = t /\ results[1] = currentResult)

\* a pass triggered before New Analysis was clicked has completed after it, on a
\* text that is no longer in the text field
C15_Witness ==
  /\ currentResult # Null
  /\ currentResult.timestamp \in staleStamps
  /\ currentResult.text # text
  /\ results[1] = currentResult
  /\ ~isAnalyzing


(***************************************************************************)
(* Properties of SentimentExplanation (specification SpecExplanation).     *)
(***************************************************************************)
\* C16: whenever analyzeTextFeatures returns no features for a result's text, that
\* result's first sentiment entry is NEUTRAL with score 1 and its POSITIVE and
\* NEGATIVE scores are 0.
C16_EmptyExplanation ==
  called = "SentimentExplanation" /\ Len(features) = 0 =>
    /\ result.sentiment[1].label = "NEUTRAL"
    /\ result.sentiment[1].score = FOne
    /\ ScoreOf(result.sentiment, "POSITIVE") = FZero
    /\ ScoreOf(result.sentiment, "NEGATIVE") = FZero

\* no features were found in a text in which the scoring pass counted two neutral
\* words
C16_Witness ==
  /\ called = "SentimentExplanation"
  /\ Len(features) = 0
  /\ Cardinality({i \in 1..Len(neutralWords) :
                    includes(toLowerCase(result.text), neutralWords[i])}) >= 2

=============================================================================
